---- MODULE Spec2Model ----
(***************************************************************************)
(* Model of the document-mapping and query layer of unnamedcast-server     *)
(* (server/db/model.go): CopyModel, parseFieldTag, newModelInfo and        *)
(* collection.Find, plus the feed merge exercised by worker/workers_test.  *)
(*                                                                         *)
(* Go strings that the code splits or prefixes are sequences of tokens     *)
(* (a token stands for a run of characters holding no comma): "" is <<>>,  *)
(* "title,unique" is <<"title", ",", "unique">>.                           *)
(***************************************************************************)
EXTENDS Integers, Sequences, FiniteSets, TLC

VARIABLES
    pc,             \* position of the call modelled by the specification
    t,              \* CopyModel: the record type (fields: Name, Exported)
    kinds,          \* CopyModel: Kind() of s1 and s2 after Elem()
    m1,             \* CopyModel: the destination record
    m2,             \* CopyModel: the source record
    ignoredFields,  \* CopyModel: the ignore list
    m1_pre,         \* CopyModel: the destination as it was before the call
    changed,        \* CopyModel: the returned boolean
    tag,            \* parseFieldTag: the struct tag (json, bson, index values)
    tagInfo,        \* parseFieldTag: the returned FieldInfo
    model,          \* newModelInfo: the record type, one struct tag per field
    info,           \* newModelInfo: the returned ModelInfo
    q,              \* collection.Find: the *Query argument (Nil when absent)
    cur,            \* collection.Find: the store query of the returned Cursor
    f1,             \* mergeFeeds: the existing feed
    f2,             \* mergeFeeds: the new snapshot
    f               \* mergeFeeds: the merged feed

vars == <<pc, t, kinds, m1, m2, ignoredFields, m1_pre, changed, tag, tagInfo,
          model, info, q, cur, f1, f2, f>>

\* The value of a variable a specification does not use.
Nil == "nil"

\* ---------------------------------------------------------------- bounds

\* Number of fields of the record types handed to CopyModel.
NumField == 3

\* Number of options that follow the name in a tag value.
MaxOpts == 2

\* Number of fields of the record types handed to newModelInfo.
MaxFields == 3

\* Length of a Query's SelectedFields and OmittedFields.
MaxListLen == 2

\* Largest Limit of a Query.
MaxLimit == 2

\* Number of distinct item GUIDs, and number of items of a feed.
MaxGuid == 3
MaxItems == 3

\* ------------------------------------------------------------- CopyModel

\* Field names by declaration position (t.Field(i).Name).
FieldNames == <<"F1", "F2", "F3", "F4">>

\* Field values.  ref = 0 is a direct value; ref > 0 is a pointer (ref is
\* its identity, val the value it points to).
FieldValues ==
    { [ref |-> 0, val |-> "a"], [ref |-> 1, val |-> "b"], [ref |-> 2, val |-> "b"] }

\* The record types: every field is exported or not.
RecordTypes ==
    { [i \in 1..NumField |-> [Name |-> FieldNames[i], Exported |-> e[i]]] :
        e \in [1..NumField -> BOOLEAN] }

Records == [1..NumField -> FieldValues]

\* The record whose fields all hold the direct value "a".
ZeroRecord == [i \in 1..NumField |-> [ref |-> 0, val |-> "a"]]

\* reflect.DeepEqual on field values: pointers are equal when identical or
\* when their pointees are deeply equal; direct values when equal.
DeepEqual(a, b) ==
    IF a.ref = 0 \/ b.ref = 0 THEN a = b ELSE a.val = b.val

\* Mutant of isIgnoredField: the ignore list is not consulted.
isIgnoredFieldNever(name, ignored) == FALSE

\* isIgnoredField: name occurs in the variadic ignoredFields.
isIgnoredField(name, ignored) == name \in ignored

\* Mutant of CanInterface: unexported fields are not filtered out.
CanInterfaceAlways(ty, i) == TRUE

\* reflect.Value.CanInterface of field i of a struct value: false exactly
\* for a field obtained through an unexported struct field.
CanInterface(ty, i) == ty[i].Exported

\* reflect.Value.CanSet of field i: the value is addressable (s1 is the
\* Elem() of a pointer, so its fields are) and not obtained through an
\* unexported field.
CanSet(ty, i) == ty[i].Exported

\* Mutant of CopyFields: fields are compared with == (pointer identity)
\* instead of reflect.DeepEqual.
RECURSIVE CopyFieldsShallow(_, _, _, _, _)
CopyFieldsShallow(ty, st, s2, ignored, i) ==
    IF i > Len(ty) THEN st
    ELSE IF ~CanInterface(ty, i) \/ isIgnoredField(ty[i].Name, ignored)
         THEN CopyFieldsShallow(ty, st, s2, ignored, i + 1)
    ELSE IF st.m1[i] # s2[i]
         THEN CopyFieldsShallow(ty,
                                [st EXCEPT !.changed = TRUE, !.m1[i] = s2[i]],
                                s2, ignored, i + 1)
    ELSE CopyFieldsShallow(ty, st, s2, ignored, i + 1)

\* The field loop of CopyModel from field i on.  st is [m1, changed, panic].
RECURSIVE CopyFields(_, _, _, _, _)
CopyFields(ty, st, s2, ignored, i) ==
    IF i > Len(ty) THEN st
    ELSE IF ~CanInterface(ty, i) \/ isIgnoredField(ty[i].Name, ignored)
         THEN CopyFields(ty, st, s2, ignored, i + 1)
    ELSE IF ~DeepEqual(st.m1[i], s2[i])
         THEN IF ~CanSet(ty, i)
              THEN [st EXCEPT !.changed = TRUE, !.panic = "Cannot set field"]
              ELSE CopyFields(ty,
                              [st EXCEPT !.changed = TRUE, !.m1[i] = s2[i]],
                              s2, ignored, i + 1)
    ELSE CopyFields(ty, st, s2, ignored, i + 1)

\* Mutant of CopyModel: the change is reported and the field is never set.
CopyModelNoSet(ty, ks, a, b, ignored) ==
    [m1 |-> a, changed |-> a # b, panic |-> ""]

\* CopyModel(m1, m2, ignoredFields...): the result is [m1, changed, panic];
\* panic = "" when the call returns.
CopyModel(ty, ks, a, b, ignored) ==
    IF ks[1] = "ptr" \/ ks[2] = "ptr"
    THEN [m1 |-> a, changed |-> FALSE,
          panic |-> "CopyModel was called with a double pointer type"]
    ELSE CopyFields(ty, [m1 |-> a, changed |-> FALSE, panic |-> ""], b, ignored, 1)

InitCopy ==
    /\ pc = "call"
    /\ t \in RecordTypes
    /\ kinds \in [1..2 -> {"struct", "ptr"}]
    /\ m1 \in Records
    /\ m2 \in Records
    \* A call with a double pointer panics before any field is read: one
    \* pair of records stands for all of them.
    /\ (kinds[1] = "ptr" \/ kinds[2] = "ptr") => (m1 = ZeroRecord /\ m2 = ZeroRecord)
    /\ ignoredFields \in SUBSET { FieldNames[i] : i \in 1..NumField }
    /\ m1_pre = m1
    /\ changed = FALSE
    /\ tag = Nil /\ tagInfo = Nil /\ model = Nil /\ info = Nil
    /\ q = Nil /\ cur = Nil /\ f1 = Nil /\ f2 = Nil /\ f = Nil

CallCopyModel ==
    /\ pc = "call"
    /\ LET r == CopyModel(t, kinds, m1, m2, ignoredFields)
       IN /\ m1' = r.m1
          /\ changed' = r.changed
          /\ pc' = IF r.panic = "" THEN "returned" ELSE "panicked"
    /\ UNCHANGED <<t, kinds, m2, ignoredFields, m1_pre, tag, tagInfo, model,
                   info, q, cur, f1, f2, f>>

NextCopy == CallCopyModel

SpecCopy == InitCopy /\ [][NextCopy]_vars

\* The call was made on two records (neither argument a double pointer)
\* and is over.
CopyCalledOnRecords ==
    pc # "call" /\ kinds[1] = "struct" /\ kinds[2] = "struct"

\* Field i is named in the ignore list of the call.
Ignored(i) == t[i].Name \in ignoredFields

C2_IdenticalUnchanged ==
    [][(pc = "call" /\ kinds[1] = "struct" /\ kinds[2] = "struct"
          /\ \A i \in 1..NumField : DeepEqual(m1[i], m2[i]))
       => (pc' = "returned" /\ ~changed' /\ m1' = m1 /\ m2' = m2)]_vars

\* C2 witness: a call that returned false on deeply equal records of which
\* one exported, non-ignored field holds two distinct pointers.
C2_Witness ==
    /\ CopyCalledOnRecords /\ pc = "returned" /\ ~changed
    /\ \A i \in 1..NumField : DeepEqual(m1_pre[i], m2[i])
    /\ \E i \in 1..NumField : t[i].Exported /\ ~Ignored(i) /\ m1[i] # m2[i]

\* C10 as stated: a call in which a non-ignored unexported field differs
\* ends in a panic.
C10_AsStated ==
    (CopyCalledOnRecords
       /\ \E i \in 1..NumField :
             ~t[i].Exported /\ ~Ignored(i) /\ ~DeepEqual(m1_pre[i], m2[i]))
    => pc = "panicked"

\* C10 amended: an unexported field is skipped silently whether or not its
\* values differ: a call on two records never panics, leaves every
\* unexported field of the destination as it was, and returns false when
\* no exported non-ignored field differs.
C10_UnexportedSkipped ==
    CopyCalledOnRecords
    => /\ pc = "returned"
       /\ \A i \in 1..NumField : ~t[i].Exported => m1[i] = m1_pre[i]
       /\ (\A i \in 1..NumField :
              (t[i].Exported /\ ~Ignored(i)) => DeepEqual(m1_pre[i], m2[i]))
          => ~changed

\* C10 witness: a call that returned although a non-ignored unexported
\* field of the two records differs.
C10_Witness ==
    /\ CopyCalledOnRecords /\ pc = "returned"
    /\ \E i \in 1..NumField :
          ~t[i].Exported /\ ~Ignored(i) /\ ~DeepEqual(m1_pre[i], m2[i])

\* --------------------------------------------------------- parseFieldTag

\* FieldInfo{}: the zero value.
ZeroFieldInfo ==
    [JSONName |-> <<>>, JSONOmitEmpty |-> FALSE,
     BSONName |-> <<>>, BSONOmitEmpty |-> FALSE,
     IndexName |-> <<>>, IndexUnique |-> FALSE, IndexText |-> FALSE]

\* strings.Split(s, ","): the pieces of s between its commas.
RECURSIVE Split(_)
Split(s) ==
    IF \A k \in 1..Len(s) : s[k] # ","
    THEN <<s>>
    ELSE LET k == CHOOSE j \in 1..Len(s) :
                      s[j] = "," /\ \A h \in 1..(j - 1) : s[h] # ","
         IN <<SubSeq(s, 1, k - 1)>> \o Split(SubSeq(s, k + 1, Len(s)))

\* reflect.StructTag.Get: the value under the key, "" when there is none.
Get(structTag, tagName) == structTag[tagName]

\* parseTag(tagName, name, opts) of parseFieldTag, applied to the FieldInfo
\* ti under construction: name is the field of ti that *name points to,
\* opts the options, each with the field of ti its Flag points to.
parseTag(ti, structTag, tagName, name, opts) ==
    LET tinfo == Get(structTag, tagName) IN
    IF tinfo # <<"-">> /\ tinfo # <<>>
    THEN LET split == Split(tinfo)
             hit(k) == \E j \in 2..Len(split) : \E o \in 1..Len(opts) :
                          split[j] = <<opts[o].Key>> /\ opts[o].Flag = k
         IN [k \in DOMAIN ti |->
                IF k = name THEN split[1]
                ELSE IF hit(k) THEN TRUE
                ELSE ti[k]]
    ELSE ti

\* The option lists of the three parseTag calls.  The bson call hands
\* &tagInfo.JSONOmitEmpty as the flag of "omitempty" (model.go:112).
JSONOpts == << [Key |-> "omitempty", Flag |-> "JSONOmitEmpty"] >>
BSONOpts == << [Key |-> "omitempty", Flag |-> "JSONOmitEmpty"] >>
IndexOpts == << [Key |-> "unique", Flag |-> "IndexUnique"],
                [Key |-> "text", Flag |-> "IndexText"] >>

parseFieldTag(structTag) ==
    LET a == parseTag(ZeroFieldInfo, structTag, "json", "JSONName", JSONOpts)
        b == parseTag(a, structTag, "bson", "BSONName", BSONOpts)
        c == parseTag(b, structTag, "index", "IndexName", IndexOpts)
    IN \* If index name is omitted, default to bson name
       IF Get(structTag, "index") # <<>> /\ c.IndexName = <<>>
       THEN [c EXCEPT !.IndexName = c.BSONName]
       ELSE c

\* The option tokens that follow a name in the tag values tried.
OptTokens == {"omitempty", "unique", "text"}

\* The comma-separated option lists of at most n options.
RECURSIVE OptLists(_)
OptLists(n) ==
    IF n = 0 THEN { <<>> }
    ELSE OptLists(n - 1)
         \cup { l \o <<",", o>> : l \in OptLists(n - 1), o \in OptTokens }

\* The tag values tried: no name, "-" or the name nm, then the options.
TagValues(nm) ==
    { n \o l : n \in { <<>>, <<"-">>, <<nm>> }, l \in OptLists(MaxOpts) }

StructTags ==
    [json : TagValues("id"), bson : TagValues("_id"), index : TagValues("idx")]

InitTag ==
    /\ pc = "call"
    /\ tag \in StructTags
    /\ tagInfo = Nil
    /\ t = Nil /\ kinds = Nil /\ m1 = Nil /\ m2 = Nil /\ ignoredFields = Nil
    /\ m1_pre = Nil /\ changed = Nil /\ model = Nil /\ info = Nil
    /\ q = Nil /\ cur = Nil /\ f1 = Nil /\ f2 = Nil /\ f = Nil

CallParseFieldTag ==
    /\ pc = "call"
    /\ tagInfo' = parseFieldTag(tag)
    /\ pc' = "returned"
    /\ UNCHANGED <<t, kinds, m1, m2, ignoredFields, m1_pre, changed, tag,
                   model, info, q, cur, f1, f2, f>>

NextTag == CallParseFieldTag

SpecTag == InitTag /\ [][NextTag]_vars

\* The name a tag value gives: what precedes its first comma.
NamePiece(v) == Split(v)[1]

\* The options a tag value gives: what follows its first comma.
OptionsOf(v) == { Split(v)[j] : j \in 2..Len(Split(v)) }

\* v is of the form <name>,<opt> with a name that is neither "" nor "-".
NameOpt(v, opt) ==
    /\ Len(v) = 3 /\ v[2] = "," /\ v[3] = opt
    /\ v[1] \notin {"-", ","}

\* C5: an annotation <name>,<opt> gives the namespace's name <name> and
\* sets the flag of that namespace and option (json omitempty, bson
\* omitempty, index unique, index text); a flag is set only by an option
\* of its own namespace.
C5_AsStated ==
    pc = "returned"
    => /\ NameOpt(tag.json, "omitempty")
            => tagInfo.JSONName = <<tag.json[1]>> /\ tagInfo.JSONOmitEmpty
       /\ NameOpt(tag.bson, "omitempty")
            => tagInfo.BSONName = <<tag.bson[1]>> /\ tagInfo.BSONOmitEmpty
       /\ NameOpt(tag.index, "unique")
            => tagInfo.IndexName = <<tag.index[1]>> /\ tagInfo.IndexUnique
       /\ NameOpt(tag.index, "text")
            => tagInfo.IndexName = <<tag.index[1]>> /\ tagInfo.IndexText
       /\ tagInfo.JSONOmitEmpty => <<"omitempty">> \in OptionsOf(tag.json)
       /\ tagInfo.BSONOmitEmpty => <<"omitempty">> \in OptionsOf(tag.bson)
       /\ tagInfo.IndexUnique => <<"unique">> \in OptionsOf(tag.index)
       /\ tagInfo.IndexText => <<"text">> \in OptionsOf(tag.index)

\* C6: a json or bson annotation whose name is "-" or empty, with or
\* without options, and an index annotation that is empty or whose name
\* is "-", give that namespace an empty name, and the parse returns.
C6_AsStated ==
    pc = "returned"
    => /\ NamePiece(tag.json) \in { <<>>, <<"-">> } => tagInfo.JSONName = <<>>
       /\ NamePiece(tag.bson) \in { <<>>, <<"-">> } => tagInfo.BSONName = <<>>
       /\ (tag.index = <<>> \/ NamePiece(tag.index) = <<"-">>)
            => tagInfo.IndexName = <<>>

\* ---------------------------------------------------------- newModelInfo

\* m[k] = v on a Go map.
MapPut(m, k, v) == [x \in DOMAIN m \cup {k} |-> IF x = k THEN v ELSE m[x]]

\* ModelInfo{...} with its three maps made and no field.
EmptyModelInfo ==
    [Fields |-> <<>>, jsonNameMap |-> <<>>, bsonNameMap |-> <<>>,
     Indexes |-> <<>>]

\* (*ModelInfo).addField: the maps hold the field's 0-based position.
addField(mi, field) ==
    LET fields == Append(mi.Fields, field) IN
    [mi EXCEPT !.Fields = fields,
               !.jsonNameMap = MapPut(@, field.JSONName, Len(fields) - 1),
               !.bsonNameMap = MapPut(@, field.BSONName, Len(fields) - 1)]

\* (*ModelInfo).lookupName: the result is [field, ok].
lookupName(mi, name, nameMap) ==
    IF name \in DOMAIN nameMap
    THEN [field |-> mi.Fields[nameMap[name] + 1], ok |-> TRUE]
    ELSE [field |-> ZeroFieldInfo, ok |-> FALSE]

LookupAPIName(mi, name) == lookupName(mi, name, mi.jsonNameMap)

LookupDBName(mi, name) == lookupName(mi, name, mi.bsonNameMap)

\* Mutant of ModelInfoField: a field is skipped only when it has neither
\* name (&& for ||).
ModelInfoFieldSkipAnd(mi, structTag) ==
    LET ftag == parseFieldTag(structTag) IN
    IF ftag.JSONName = <<>> /\ ftag.BSONName = <<>> THEN mi
    ELSE LET added == addField(mi, ftag) IN
         IF ftag.IndexName # <<>> /\ ftag.IndexName \notin DOMAIN added.Indexes
         THEN [added EXCEPT !.Indexes =
                  MapPut(@, ftag.IndexName,
                         [Name |-> ftag.IndexName, Key |-> <<ftag.BSONName>>,
                          Unique |-> ftag.IndexUnique])]
         ELSE added

\* Mutant of ModelInfoField: every field carrying the index name stores the
\* Index anew, with its own uniqueness flag.
ModelInfoFieldLastUnique(mi, structTag) ==
    LET ftag == parseFieldTag(structTag) IN
    IF ftag.JSONName = <<>> \/ ftag.BSONName = <<>> THEN mi
    ELSE LET added == addField(mi, ftag) IN
         IF ftag.IndexName # <<>>
         THEN [added EXCEPT !.Indexes =
                  MapPut(@, ftag.IndexName,
                         [Name |-> ftag.IndexName, Key |-> <<ftag.BSONName>>,
                          Unique |-> ftag.IndexUnique])]
         ELSE added

\* The body of newModelInfo's loop for one field.  When the index name is
\* already in info.Indexes, idx is a copy of the map's Index value: the
\* append to idx.Key changes the copy, which is dropped, and the map keeps
\* the Index it held.
ModelInfoField(mi, structTag) ==
    LET ftag == parseFieldTag(structTag) IN
    IF ftag.JSONName = <<>> \/ ftag.BSONName = <<>> THEN mi
    ELSE LET added == addField(mi, ftag) IN
         IF ftag.IndexName # <<>>
         THEN IF ftag.IndexName \in DOMAIN added.Indexes
              THEN added
              ELSE [added EXCEPT !.Indexes =
                       MapPut(@, ftag.IndexName,
                              [Name |-> ftag.IndexName,
                               Key |-> <<ftag.BSONName>>,
                               Unique |-> ftag.IndexUnique])]
         ELSE added

\* newModelInfo's loop over the fields from field i on.
RECURSIVE ModelInfoFields(_, _, _)
ModelInfoFields(mi, ty, i) ==
    IF i > Len(ty) THEN mi
    ELSE ModelInfoFields(ModelInfoField(mi, ty[i]), ty, i + 1)

newModelInfo(ty) == ModelInfoFields(EmptyModelInfo, ty, 1)

\* The struct tags of the record types tried.
ModelTags ==
    [json : { <<>>, <<"a">> },
     bson : { <<>>, <<"x">>, <<"y">> },
     index : { <<>>, <<"i">>, <<"i", ",", "unique">> }]

InitModel ==
    /\ pc = "call"
    /\ model \in UNION { [1..n -> ModelTags] : n \in 0..MaxFields }
    /\ info = Nil
    /\ t = Nil /\ kinds = Nil /\ m1 = Nil /\ m2 = Nil /\ ignoredFields = Nil
    /\ m1_pre = Nil /\ changed = Nil /\ tag = Nil /\ tagInfo = Nil
    /\ q = Nil /\ cur = Nil /\ f1 = Nil /\ f2 = Nil /\ f = Nil

CallNewModelInfo ==
    /\ pc = "call"
    /\ info' = newModelInfo(model)
    /\ pc' = "returned"
    /\ UNCHANGED <<t, kinds, m1, m2, ignoredFields, m1_pre, changed, tag,
                   tagInfo, model, q, cur, f1, f2, f>>

NextModel == CallNewModelInfo

SpecModel == InitModel /\ [][NextModel]_vars

\* The parsed tag of the i-th declared field.
Parsed(i) == parseFieldTag(model[i])

\* The i-th declared field is included: it has both names.
Included(i) == Parsed(i).JSONName # <<>> /\ Parsed(i).BSONName # <<>>

\* The positions of the included fields carrying index name n, and the
\* first of them.
Carriers(n) == { i \in 1..Len(model) : Included(i) /\ Parsed(i).IndexName = n }

FirstCarrier(n) == CHOOSE i \in Carriers(n) : \A j \in Carriers(n) : i <= j

\* The storage names of the fields at the positions in S, in declaration
\* order from position i on.
RECURSIVE KeysFrom(_, _)
KeysFrom(S, i) ==
    IF i > Len(model) THEN <<>>
    ELSE (IF i \in S THEN <<Parsed(i).BSONName>> ELSE <<>>) \o KeysFrom(S, i + 1)

\* The non-empty index names carried by included fields.
IndexNames == { Parsed(i).IndexName : i \in { j \in 1..Len(model) : Included(j) } }
                 \ { <<>> }

\* C3: the Index stored under an index name shared by two or more included
\* fields has as Key the storage names of all those fields, in declaration
\* order.
C3_AsStated ==
    pc = "returned"
    => \A n \in IndexNames :
          Cardinality(Carriers(n)) >= 2
          => /\ n \in DOMAIN info.Indexes
             /\ info.Indexes[n].Key = KeysFrom(Carriers(n), 1)

\* C4 as stated: a declared field with no name in either namespace is found
\* under neither map, and a declared field with a name in exactly one
\* namespace is found by that namespace's lookup.
C4_AsStated ==
    pc = "returned"
    => \A i \in 1..Len(model) :
          LET p == Parsed(i) IN
          /\ (p.JSONName = <<>> /\ p.BSONName = <<>>)
               => /\ ~LookupAPIName(info, p.JSONName).ok
                  /\ ~LookupDBName(info, p.BSONName).ok
          /\ (p.JSONName # <<>> /\ p.BSONName = <<>>)
               => LookupAPIName(info, p.JSONName) = [field |-> p, ok |-> TRUE]
          /\ (p.JSONName = <<>> /\ p.BSONName # <<>>)
               => LookupDBName(info, p.BSONName) = [field |-> p, ok |-> TRUE]

\* A lookup result that is the declared field with parsed tag p.
Finds(r, p) == r.ok /\ r.field = p

\* C4 amended: a declared field that lacks a name in either namespace (in
\* one of them or in both) is found under neither map: no lookup by its
\* names returns it, and every field the maps lead to has both names.
C4_OnlyFullyNamedFields ==
    pc = "returned"
    => /\ \A i \in 1..Len(model) :
             LET p == Parsed(i) IN
             (p.JSONName = <<>> \/ p.BSONName = <<>>)
             => /\ ~Finds(LookupAPIName(info, p.JSONName), p)
                /\ ~Finds(LookupDBName(info, p.BSONName), p)
       /\ \A n \in DOMAIN info.jsonNameMap :
             LET r == LookupAPIName(info, n) IN
             r.ok /\ r.field.JSONName = n /\ r.field.BSONName # <<>>
       /\ \A n \in DOMAIN info.bsonNameMap :
             LET r == LookupDBName(info, n) IN
             r.ok /\ r.field.BSONName = n /\ r.field.JSONName # <<>>

\* C4 witness: a built descriptor of a type with a field named in the
\* storage namespace only, whose name the storage lookup misses, a field
\* named in the external namespace only, which the external lookup does
\* not return, and a field named in both, which both lookups find.
C4_Witness ==
    /\ pc = "returned"
    /\ \E i \in 1..Len(model) :
          /\ Parsed(i).JSONName = <<>> /\ Parsed(i).BSONName # <<>>
          /\ ~LookupDBName(info, Parsed(i).BSONName).ok
    /\ \E i \in 1..Len(model) :
          /\ Parsed(i).JSONName # <<>> /\ Parsed(i).BSONName = <<>>
          /\ ~Finds(LookupAPIName(info, Parsed(i).JSONName), Parsed(i))
    /\ \E i \in 1..Len(model) :
          /\ Included(i)
          /\ Finds(LookupAPIName(info, Parsed(i).JSONName), Parsed(i))
          /\ Finds(LookupDBName(info, Parsed(i).BSONName), Parsed(i))

\* C7: the Unique flag of every Index is the IndexUnique flag of the first
\* included field, in declaration order, carrying its name; an Index exists
\* for exactly the index names included fields carry.
C7_FirstFieldUnique ==
    pc = "returned"
    => /\ DOMAIN info.Indexes = IndexNames
       /\ \A n \in DOMAIN info.Indexes :
             /\ info.Indexes[n].Name = n
             /\ info.Indexes[n].Unique = Parsed(FirstCarrier(n)).IndexUnique

\* C7 witness: an Index whose name is carried first by an excluded field
\* flagged unique, then by an included field not flagged unique, then by
\* an included field flagged unique; it is not unique.
C7_Witness ==
    /\ pc = "returned"
    /\ \E n \in DOMAIN info.Indexes :
          /\ ~info.Indexes[n].Unique
          /\ \E i \in Carriers(n) : Parsed(i).IndexUnique
          /\ \E j \in 1..Len(model) :
                /\ ~Included(j) /\ Parsed(j).IndexName = n
                /\ Parsed(j).IndexUnique /\ j < FirstCarrier(n)

\* ------------------------------------------------------- collection.Find

\* An absent value (a nil pointer, an unset part of a store query) is <<>>,
\* a present one <<v>>.
None == <<>>
Some(v) == <<v>>

\* c.c.Find(filter): a store query with the filter and nothing else set.
StoreFind(filter) ==
    [filter |-> filter, projection |-> None, sort |-> None, limit |-> None]

\* The Cursor's Select, Sort and Limit, which set the projection, the sort
\* and the limit of the store query the Cursor wraps.
Select(c, sel) == [c EXCEPT !.projection = Some(sel)]
Sort(c, sortField) == [c EXCEPT !.sort = Some(sortField)]
Limit(c, n) == [c EXCEPT !.limit = Some(n)]

\* for _, s := range list { sel[s] = v }, from position i on.
RECURSIVE PutAll(_, _, _, _)
PutAll(sel, list, v, i) ==
    IF i > Len(list) THEN sel
    ELSE PutAll(MapPut(sel, list[i], v), list, v, i + 1)

\* Mutant of Projection: the omitted fields are entered first, so that a
\* field in both lists ends up included.
ProjectionOmittedFirst(qq) ==
    PutAll(PutAll(<<>>, qq.OmittedFields, -1, 1), qq.SelectedFields, 1, 1)

\* The sel map of Find: the selected fields, then the omitted fields.
Projection(qq) ==
    PutAll(PutAll(<<>>, qq.SelectedFields, 1, 1), qq.OmittedFields, -1, 1)

\* The argument Find hands to Sort.
SortArg(qq) == IF qq.SortDesc THEN <<"-">> \o qq.SortField ELSE qq.SortField

\* collection.Find(q): the store query of the Cursor returned.
Find(qp) ==
    IF qp = None THEN StoreFind(Nil)
    ELSE LET qq == qp[1]
             c0 == StoreFind(qq.Filter)
             sel == Projection(qq)
             c1 == IF DOMAIN sel # {} THEN Select(c0, sel) ELSE c0
             c2 == IF qq.SortField # <<>> THEN Sort(c1, SortArg(qq)) ELSE c1
         IN IF qq.Limit > 0 THEN Limit(c2, qq.Limit) ELSE c2

\* The field names a Query selects or omits.
QueryFields == {"title", "guid"}

\* The lists of field names tried.
FieldLists == UNION { [1..n -> QueryFields] : n \in 0..MaxListLen }

Queries ==
    [Filter : {Nil, "f1", "f2"},
     SortField : { <<>>, <<"title">> },
     SortDesc : BOOLEAN,
     SelectedFields : FieldLists,
     OmittedFields : FieldLists,
     Limit : -1..MaxLimit]

InitFind ==
    /\ pc = "call"
    /\ q \in {None} \cup { Some(r) : r \in Queries }
    /\ cur = Nil
    /\ t = Nil /\ kinds = Nil /\ m1 = Nil /\ m2 = Nil /\ ignoredFields = Nil
    /\ m1_pre = Nil /\ changed = Nil /\ tag = Nil /\ tagInfo = Nil
    /\ model = Nil /\ info = Nil /\ f1 = Nil /\ f2 = Nil /\ f = Nil

CallFind ==
    /\ pc = "call"
    /\ cur' = Find(q)
    /\ pc' = "returned"
    /\ UNCHANGED <<t, kinds, m1, m2, ignoredFields, m1_pre, changed, tag,
                   tagInfo, model, info, q, f1, f2, f>>

NextFind == CallFind

SpecFind == InitFind /\ [][NextFind]_vars

\* The elements of a list.
Elems(list) == { list[i] : i \in 1..Len(list) }

\* What C8 says of the filter, the sort and the limit of a present Query,
\* and of an absent Query.
FindRest ==
    /\ q = None => cur = [filter |-> Nil, projection |-> None,
                          sort |-> None, limit |-> None]
    /\ q # None
       => LET qq == q[1] IN
          /\ cur.filter = qq.Filter
          /\ cur.sort = IF qq.SortField = <<>> THEN None
                        ELSE IF qq.SortDesc THEN Some(<<"-">> \o qq.SortField)
                        ELSE Some(qq.SortField)
          /\ cur.limit = IF qq.Limit > 0 THEN Some(qq.Limit) ELSE None
          /\ cur.projection = None
             <=> (qq.SelectedFields = <<>> /\ qq.OmittedFields = <<>>)
          /\ cur.projection # None
             => DOMAIN cur.projection[1]
                  = Elems(qq.SelectedFields) \cup Elems(qq.OmittedFields)

\* C8 as stated: the projection maps every selected field to the include
\* marker 1 and every omitted field to the exclude marker -1; the filter is
\* the Query's, the sort is the sort field, prefixed with "-" exactly when
\* SortDesc is set, the limit is set exactly when Limit > 0; an absent
\* Query gives a store query with nothing set.
C8_AsStated ==
    pc = "returned"
    => /\ FindRest
       /\ (q # None /\ cur.projection # None)
          => /\ \A s \in Elems(q[1].SelectedFields) : cur.projection[1][s] = 1
             /\ \A s \in Elems(q[1].OmittedFields) : cur.projection[1][s] = -1

\* C8 amended: as stated, but a field that is both selected and omitted is
\* mapped to the exclude marker -1; a selected field that is not omitted is
\* mapped to the include marker 1.
C8_FindTranslatesQuery ==
    pc = "returned"
    => /\ FindRest
       /\ (q # None /\ cur.projection # None)
          => /\ \A s \in Elems(q[1].SelectedFields) \ Elems(q[1].OmittedFields) :
                   cur.projection[1][s] = 1
             /\ \A s \in Elems(q[1].OmittedFields) : cur.projection[1][s] = -1

\* C8 witness: the store query of a Query that selects two fields and
\* omits one of them, sorts descending and has a positive limit.
C8_Witness ==
    /\ pc = "returned" /\ q # None
    /\ q[1].SortDesc /\ cur.sort = Some(<<"-", "title">>)
    /\ cur.limit = Some(MaxLimit)
    /\ cur.projection # None
    /\ \E s \in Elems(q[1].SelectedFields) \cap Elems(q[1].OmittedFields) :
          cur.projection[1][s] = -1
    /\ \E s \in Elems(q[1].SelectedFields) : cur.projection[1][s] = 1

\* ------------------------------------------------------------- mergeFeeds

\* api.Item as a record value for CopyModel: the fields GUID and Title.
ItemType ==
    << [Name |-> "GUID", Exported |-> TRUE], [Name |-> "Title", Exported |-> TRUE] >>

Item(guid, title) == << [ref |-> 0, val |-> guid], [ref |-> 0, val |-> title] >>

GUID(item) == item[1].val

\* The position in items of the item with the GUID, 0 when there is none.
IndexOfGUID(items, guid) ==
    IF \E k \in 1..Len(items) : GUID(items[k]) = guid
    THEN CHOOSE k \in 1..Len(items) :
            GUID(items[k]) = guid /\ \A h \in 1..(k - 1) : GUID(items[h]) # guid
    ELSE 0

\* mergeFeeds from the i-th item of the new snapshot on: an item whose GUID
\* the feed holds is copied over the feed's item (CopyModel), another one is
\* added; the items of the existing feed are kept.
RECURSIVE MergeItems(_, _, _)
MergeItems(items, new, i) ==
    IF i > Len(new) THEN items
    ELSE LET k == IndexOfGUID(items, GUID(new[i])) IN
         IF k = 0
         THEN MergeItems(Append(items, new[i]), new, i + 1)
         ELSE MergeItems(
                 [items EXCEPT ![k] =
                     CopyModel(ItemType, <<"struct", "struct">>, @, new[i], {}).m1],
                 new, i + 1)

mergeFeeds(old, new) == MergeItems(old, new, 1)

Items == { Item(g, ti) : g \in 1..MaxGuid, ti \in {"old", "new"} }

\* The feeds tried: at most MaxItems items, no two with the same GUID.
Feeds ==
    { s \in UNION { [1..n -> Items] : n \in 0..MaxItems } :
        \A i, j \in 1..Len(s) : GUID(s[i]) = GUID(s[j]) => i = j }

InitMerge ==
    /\ pc = "call"
    /\ f1 \in Feeds
    /\ f2 \in Feeds
    /\ f = Nil
    /\ t = Nil /\ kinds = Nil /\ m1 = Nil /\ m2 = Nil /\ ignoredFields = Nil
    /\ m1_pre = Nil /\ changed = Nil /\ tag = Nil /\ tagInfo = Nil
    /\ model = Nil /\ info = Nil /\ q = Nil /\ cur = Nil

CallMergeFeeds ==
    /\ pc = "call"
    /\ f' = mergeFeeds(f1, f2)
    /\ pc' = "returned"
    /\ UNCHANGED <<t, kinds, m1, m2, ignoredFields, m1_pre, changed, tag,
                   tagInfo, model, info, q, cur, f1, f2>>

NextMerge == CallMergeFeeds

SpecMerge == InitMerge /\ [][NextMerge]_vars

\* The GUIDs of the items of a feed.
GUIDs(feed) == { GUID(feed[i]) : i \in 1..Len(feed) }

====
